---------------------------- MODULE Spec2Model ----------------------------
(***************************************************************************)
(* Model of app_dash.py: the Olympic medals dashboard.                     *)
(*                                                                         *)
(* The module-level script (load, validate, prepare, build the layout and  *)
(* register the callbacks) is a sequence of steps driven by pc; the four   *)
(* chart functions are operators over the prepared table; the Dash runtime *)
(* is modelled by the selector-change events and the callbacks they queue. *)
(*                                                                         *)
(* Encodings: Python's None is the string NoneStr where a string is        *)
(* expected and the integer YearNone where a year is expected; the 'All'   *)
(* sentinel of the year dropdown is the integer YearAll.  A data frame is  *)
(* a sequence of records (its rows, in row order).                         *)
(***************************************************************************)
EXTENDS Integers, Sequences, FiniteSets, TLC

VARIABLES
    pc,             \* position of the module-level script / the server
    csv,            \* which CSV file the remote host serves (the environment)
    csv_columns,    \* header of the remote CSV file (the environment)
    load_attempts,  \* number of pd.read_csv calls made
    load_result,    \* "pending", "ok", "FileNotFoundError" or "Exception"
    printed,        \* what print() has written so far
    exit_code,      \* process exit status, NotExited while running
    df_full,        \* the loaded table
    df,             \* the prepared table
    all_countries,  \* sorted distinct Country_Name of df
    year_options,   \* options of the year dropdown
    callbacks,      \* callbacks registered with @app.callback
    country_value,  \* value of 'country-dropdown'
    medal_value,    \* value of 'medal-type-dropdown'
    year_value,     \* value of 'year-dropdown'
    pending,        \* callbacks the last event queued and not yet run
    raised,         \* callbacks that raised since the last event
    fig_pie, fig_map, fig_area, fig_bar,   \* figure shown in each dcc.Graph
    fig_args        \* arguments of the call that produced each shown figure

vars == <<pc, csv, csv_columns, load_attempts, load_result, printed, exit_code,
          df_full, df, all_countries, year_options, callbacks, country_value,
          medal_value, year_value, pending, raised,
          fig_pie, fig_map, fig_area, fig_bar, fig_args>>

---------------------------------------------------------------------------
(* Encodings of Python values *)

NoneStr == "<None>"
YearAll == 0
YearNone == -1
NotExited == -1

(* Largest medal count of a varying row of the CSV files considered. *)
MaxMedal == 1

YEAR_MIN == 1992
YEAR_MAX == 2020
TOP_N == 10

---------------------------------------------------------------------------
(* The CSV files considered *)

(* Country names, listed in the order Python's sorted() gives them. *)
CountryNames ==
    << "Australia", "Brazil", "China", "Cuba", "France", "Germany",
       "Great Britain", "Hungary", "Italy", "Japan", "Soviet Union", "Spain",
       "United States", "United States of America" >>

Rank(name) == CHOOSE i \in 1..Len(CountryNames) : CountryNames[i] = name

HostCity(y) ==
    CASE y = 1988 -> "Seoul"
      [] y = 1992 -> "Barcelona"
      [] y = 2020 -> "Tokyo"
      [] OTHER    -> "Paris"

HostCountry(y) ==
    CASE y = 1988 -> "South Korea"
      [] y = 1992 -> "Spain"
      [] y = 2020 -> "Japan"
      [] OTHER    -> "France"

CsvRow(y, name, g, s, b) ==
    [Year |-> y, Host_country |-> HostCountry(y), Host_city |-> HostCity(y),
     Country_Name |-> name, Country_Code |-> Rank(name),
     Gold |-> g, Silver |-> s, Bronze |-> b]

FixedRows ==
    << CsvRow(1988, "Soviet Union", 55, 31, 46),
       CsvRow(1992, "Australia", 3, 2, 4),
       CsvRow(1992, "China", 5, 4, 3),
       CsvRow(1992, "France", 2, 1, 3),
       CsvRow(1992, "Germany", 6, 3, 5),
       CsvRow(1992, "Great Britain", 2, 1, 2),
       CsvRow(1992, "Italy", 1, 2, 1),
       CsvRow(1992, "Japan", 1, 3, 2),
       CsvRow(1992, "Spain", 1, 0, 1),
       CsvRow(1992, "United States", 4, 3, 2),
       CsvRow(1992, "Brazil", 0, 0, 1),
       CsvRow(1992, "Cuba", 0, 0, 1),
       CsvRow(1992, "Hungary", 0, 0, 1),
       CsvRow(2020, "Hungary", 1, 0, 0),
       CsvRow(2020, "United States of America", 5, 4, 4),
       CsvRow(2020, "China", 4, 2, 2),
       CsvRow(2020, "Germany", 1, 1, 1),
       CsvRow(2020, "Japan", 3, 1, 2),
       CsvRow(2020, "United States", 0, 1, 0),
       CsvRow(2020, "Australia", 2, 0, 1),
       CsvRow(2024, "France", 16, 26, 22) >>

VaryingRow(name, g) == CsvRow(2020, name, g, MaxMedal - g, g % 2)

OutOfRangeOnly ==
    << CsvRow(1988, "Soviet Union", 55, 31, 46),
       CsvRow(2024, "France", 16, 26, 22) >>

(* A file is named by the gold counts of its two varying rows; the empty
   name is the file with no row in 1992-2020. *)
CsvFiles == {<<>>} \cup ((0..MaxMedal) \X (0..MaxMedal))

CsvContent(file) ==
    IF file = <<>> THEN OutOfRangeOnly
    ELSE FixedRows \o << VaryingRow("Brazil", file[1]),
                         VaryingRow("Cuba", file[2]) >>

expected_cols_from_user ==
    << "Year", "Host_country", "Host_city", "Country_Name", "Country_Code",
       "Gold", "Silver", "Bronze" >>

Range(s) == {s[i] : i \in DOMAIN s}

CsvHeaders ==
    { Range(expected_cols_from_user),
      Range(expected_cols_from_user) \ {"Gold"},
      Range(expected_cols_from_user) \ {"Country_Code", "Host_city"} }

medal_types == << "Gold", "Silver", "Bronze", "Total_Medals" >>

(* Values the three selectors can deliver to the callbacks. *)
MedalInputs == Range(medal_types) \cup {NoneStr}
YearInputs == {YearAll, YearNone, 1992, 2020}
CountryInputs == {NoneStr, "", "Australia", "United States"}

---------------------------------------------------------------------------
(* pandas operations used by the script *)

RECURSIVE SumCol(_, _)
SumCol(d, col) ==
    IF d = <<>> THEN 0 ELSE Head(d)[col] + SumCol(Tail(d), col)

RemoveAt(s, i) == [j \in 1..(Len(s) - 1) |-> IF j < i THEN s[j] ELSE s[j + 1]]

(* sorted() of a set of country names *)
SortNames(S) == SelectSeq(CountryNames, LAMBDA n : n \in S)

RECURSIVE SortInts(_)
SortInts(S) ==
    IF S = {} THEN <<>>
    ELSE LET m == CHOOSE x \in S : \A y \in S : x <= y
         IN  <<m>> \o SortInts(S \ {m})

NamesOf(d) == {d[i].Country_Name : i \in DOMAIN d}
YearsOf(d) == {d[i].Year : i \in DOMAIN d}

GroupSums(d, keys, col) ==
    [i \in 1..Len(keys) |->
        [Country_Name |-> keys[i],
         value |-> SumCol(SelectSeq(d, LAMBDA r : r.Country_Name = keys[i]), col)]]

(* df.groupby('Country_Name')[col].sum(): one entry per name, sorted by name *)
GroupByCountrySum(d, col) == GroupSums(d, SortNames(NamesOf(d)), col)

GroupCells(d, keys, years) ==
    [k \in 1..(Len(keys) * Len(years)) |->
        LET n == keys[((k - 1) \div Len(years)) + 1]
            y == years[((k - 1) % Len(years)) + 1]
        IN  [Country_Name |-> n, Year |-> y,
             rows |-> SelectSeq(d, LAMBDA r : r.Country_Name = n /\ r.Year = y)]]

CellSums(cells, col) ==
    [k \in 1..Len(cells) |->
        [Country_Name |-> cells[k].Country_Name, Year |-> cells[k].Year,
         value |-> SumCol(cells[k].rows, col)]]

(* df.groupby(['Country_Name', 'Year'])[col].sum(): one entry per (name, year)
   with at least one row, sorted by name, then year *)
GroupByCountryYearSum(d, col) ==
    CellSums(SelectSeq(GroupCells(d, SortNames(NamesOf(d)), SortInts(YearsOf(d))),
                       LAMBDA c : c.rows # <<>>), col)

(* nlargest(n) with keep='first': descending values, ties in original order *)
RECURSIVE NLargest(_, _)
NLargest(n, s) ==
    IF n = 0 \/ s = <<>> THEN <<>>
    ELSE LET i == CHOOSE i \in 1..Len(s) :
                    \A j \in 1..Len(s) :
                        \/ s[j].value < s[i].value
                        \/ s[j].value = s[i].value /\ i <= j
         IN  <<s[i]>> \o NLargest(n - 1, RemoveAt(s, i))

RECURSIVE DropDuplicates(_)
DropDuplicates(s) ==
    IF s = <<>> THEN <<>>
    ELSE LET init == DropDuplicates(SubSeq(s, 1, Len(s) - 1))
             last == s[Len(s)]
         IN  IF last \in Range(init) THEN init ELSE Append(init, last)

RECURSIVE SortByYear(_)
SortByYear(s) ==
    IF s = <<>> THEN <<>>
    ELSE LET i == CHOOSE i \in 1..Len(s) :
                    \A j \in 1..Len(s) :
                        \/ s[i].Year < s[j].Year
                        \/ s[i].Year = s[j].Year /\ i <= j
         IN  <<s[i]>> \o SortByYear(RemoveAt(s, i))

---------------------------------------------------------------------------
(* Data preparation *)

missing_cols(columns) ==
    SelectSeq(expected_cols_from_user, LAMBDA col : col \notin columns)

ReplaceCountryName(d) ==
    [i \in 1..Len(d) |->
        IF d[i].Country_Name = "United States"
        THEN [d[i] EXCEPT !.Country_Name = "United States of America"]
        ELSE d[i]]

(* the year filter without its upper limit *)
FilterYears_lower_only(d) == SelectSeq(d, LAMBDA r : r.Year >= YEAR_MIN)

FilterYears(d) ==
    SelectSeq(d, LAMBDA r : r.Year >= YEAR_MIN /\ r.Year <= YEAR_MAX)

AddTotalMedals(d) ==
    [i \in 1..Len(d) |->
        [Year |-> d[i].Year, Host_country |-> d[i].Host_country,
         Host_city |-> d[i].Host_city, Country_Name |-> d[i].Country_Name,
         Country_Code |-> d[i].Country_Code, Gold |-> d[i].Gold,
         Silver |-> d[i].Silver, Bronze |-> d[i].Bronze,
         Total_Medals |-> d[i].Gold + d[i].Silver + d[i].Bronze]]

PreparedColumns == Range(expected_cols_from_user) \cup {"Total_Medals"}

AllCountries(d) == SortNames(NamesOf(d))

(* A label of the year dropdown or a year segment of the bar title. *)
Label(text, y, city, country) ==
    [text |-> text, year |-> y, city |-> city, country |-> country]

AllYearsLabel == Label("Todos os anos (1992-2020)", YearAll, "", "")

YearOptions(d) ==
    LET year_host_info ==
            SortByYear(DropDuplicates(
                [i \in 1..Len(d) |->
                    [Year |-> d[i].Year, Host_city |-> d[i].Host_city,
                     Host_country |-> d[i].Host_country]]))
    IN  << [label |-> AllYearsLabel, value |-> YearAll] >> \o
        [i \in 1..Len(year_host_info) |->
            [label |-> Label("{Year} - {Host_city}, {Host_country}",
                             year_host_info[i].Year,
                             year_host_info[i].Host_city,
                             year_host_info[i].Host_country),
             value |-> year_host_info[i].Year]]

---------------------------------------------------------------------------
(* Figures and the four chart functions *)

NoLabel == Label("", YearNone, "", "")

Fig(kind, text, arg, segment, data, annotation, color) ==
    [kind |-> kind, title |-> [text |-> text, arg |-> arg, segment |-> segment],
     data |-> data, annotation |-> annotation, color |-> color]

(* The dcc.Graph of the layout before any callback has filled it. *)
EmptyFig == Fig("none", "", "", NoLabel, <<>>, "", "")

(* The outcome of a call that raised instead of returning a figure. *)
Raise(exception) == Fig("error", exception, "", NoLabel, <<>>, "", "")

(* str.replace("_", " ") on the medal-type key *)
ReplaceUnderscore(medal_col) ==
    IF medal_col = "Total_Medals" THEN "Total Medals" ELSE medal_col

(* the pie function without the check for an empty selection of rows *)
update_pie_chart_no_empty_check(d, selected_country) ==
    IF selected_country \in {NoneStr, ""}
    THEN Fig("pie", "Por favor, selecione um pais", "", NoLabel, <<>>,
             "Nenhum pais selecionado", "")
    ELSE LET country_data ==
                 SelectSeq(d, LAMBDA r : r.Country_Name = selected_country)
         IN  Fig("pie", "Distribuicao de Medalhas de {} (1992-2020)",
                 selected_country, NoLabel,
                 << [name |-> "Ouro", value |-> SumCol(country_data, "Gold")],
                    [name |-> "Prata", value |-> SumCol(country_data, "Silver")],
                    [name |-> "Bronze", value |-> SumCol(country_data, "Bronze")] >>,
                 "", "color_discrete_map")

update_pie_chart(d, selected_country) ==
    IF selected_country \in {NoneStr, ""}
    THEN Fig("pie", "Por favor, selecione um pais", "", NoLabel, <<>>,
             "Nenhum pais selecionado", "")
    ELSE LET country_data ==
                 SelectSeq(d, LAMBDA r : r.Country_Name = selected_country)
         IN  IF country_data = <<>>
             THEN Fig("pie", "Sem dados para {} (1992-2020)", selected_country,
                      NoLabel, <<>>, "Dados nao disponiveis", "")
             ELSE Fig("pie", "Distribuicao de Medalhas de {} (1992-2020)",
                      selected_country, NoLabel,
                      << [name |-> "Ouro", value |-> SumCol(country_data, "Gold")],
                         [name |-> "Prata", value |-> SumCol(country_data, "Silver")],
                         [name |-> "Bronze", value |-> SumCol(country_data, "Bronze")] >>,
                      "", "color_discrete_map")

(* the map function keeping only the ten largest values, as the bar does *)
update_map_chart_top_10(d, selected_medal_type) ==
    LET medal_col == selected_medal_type
    IN  IF medal_col \notin PreparedColumns
        THEN Raise("KeyError")
        ELSE Fig("choropleth", "Total de {} por pais (1992-2020)",
                 ReplaceUnderscore(medal_col), NoLabel,
                 NLargest(TOP_N, GroupByCountrySum(d, medal_col)), "", "YlOrRd")

update_map_chart(d, selected_medal_type) ==
    LET medal_col == selected_medal_type
    IN  IF medal_col \notin PreparedColumns
        THEN Raise("KeyError")
        ELSE Fig("choropleth", "Total de {} por pais (1992-2020)",
                 ReplaceUnderscore(medal_col), NoLabel,
                 GroupByCountrySum(d, medal_col), "", "YlOrRd")

(* the index of a grouped series or frame: its country names *)
Index(s) == {s[i].Country_Name : i \in DOMAIN s}

(* the ten largest taken over the per-year sums instead of the overall sums *)
top_10_by_country_year(d, medal_col) ==
    Index(NLargest(TOP_N, GroupByCountryYearSum(d, medal_col)))

top_10_countries_overall(d, medal_col) ==
    Index(NLargest(TOP_N, GroupByCountrySum(d, medal_col)))

update_area_chart(d, selected_medal_type) ==
    LET medal_col == selected_medal_type
    IN  IF medal_col \notin PreparedColumns
        THEN Raise("KeyError")
        ELSE LET df_country_year_medals == GroupByCountryYearSum(d, medal_col)
                 index == top_10_countries_overall(d, medal_col)
                 df_top_10 ==
                     SelectSeq(df_country_year_medals,
                               LAMBDA r : r.Country_Name \in index)
             IN  Fig("area", "Top 10 paises por {} (1992-2020)",
                     ReplaceUnderscore(medal_col), NoLabel, df_top_10, "", "")

(* the bar's table without the year restriction *)
current_df_bar_unfiltered(d, selected_year_value) == d

current_df_bar(d, selected_year_value) ==
    IF selected_year_value # YearAll
    THEN SelectSeq(d, LAMBDA r : r.Year = selected_year_value)
    ELSE d

update_bar_chart(d, options, selected_medal_type, selected_year_value) ==
    LET medal_col == selected_medal_type
        matching == SelectSeq(options, LAMBDA item : item.value = selected_year_value)
        year_title_segment ==
            IF selected_year_value # YearAll
            THEN IF matching # <<>>
                 THEN Head(matching).label
                 ELSE Label("{value}", selected_year_value, "", "")
            ELSE AllYearsLabel
        bar_color_val ==
            CASE medal_col = "Gold"   -> "gold"
              [] medal_col = "Silver" -> "silver"
              [] medal_col = "Bronze" -> "#cd7f32"
              [] OTHER                -> ""
    IN  IF medal_col \notin PreparedColumns
        THEN Raise("KeyError")
        ELSE Fig("bar", "Top 10 paises por {} em {}", ReplaceUnderscore(medal_col),
                 year_title_segment,
                 NLargest(TOP_N,
                          GroupByCountrySum(current_df_bar(d, selected_year_value),
                                            medal_col)),
                 "", bar_color_val)

---------------------------------------------------------------------------
(* The layout and the callback registrations *)

DefaultCountry(countries) ==
    IF countries # <<>> THEN countries[1] ELSE NoneStr

(* the registrations with the pie also listening to the medal-type dropdown *)
Callbacks_pie_on_medal_type ==
    { [func |-> "update_pie_chart", output |-> "pie-chart",
       inputs |-> {"country-dropdown", "medal-type-dropdown"}],
      [func |-> "update_map_chart", output |-> "map-chart",
       inputs |-> {"medal-type-dropdown"}],
      [func |-> "update_area_chart", output |-> "area-chart",
       inputs |-> {"medal-type-dropdown"}],
      [func |-> "update_bar_chart", output |-> "bar-chart",
       inputs |-> {"medal-type-dropdown", "year-dropdown"}] }

Callbacks ==
    { [func |-> "update_pie_chart", output |-> "pie-chart",
       inputs |-> {"country-dropdown"}],
      [func |-> "update_map_chart", output |-> "map-chart",
       inputs |-> {"medal-type-dropdown"}],
      [func |-> "update_area_chart", output |-> "area-chart",
       inputs |-> {"medal-type-dropdown"}],
      [func |-> "update_bar_chart", output |-> "bar-chart",
       inputs |-> {"medal-type-dropdown", "year-dropdown"}] }

(* The callbacks an input's change triggers. *)
Triggered(input) == {cb.func : cb \in {c \in callbacks : input \in c.inputs}}

NoArgs == [pie |-> <<>>, map |-> <<>>, area |-> <<>>, bar |-> <<>>]

---------------------------------------------------------------------------
(* Initial state: the script has not started; the CSV file is whatever the
   remote host serves. *)

Init ==
    /\ pc = "load"
    /\ csv \in CsvFiles
    /\ csv_columns \in CsvHeaders
    /\ load_attempts = 0
    /\ load_result = "pending"
    /\ printed = <<>>
    /\ exit_code = NotExited
    /\ df_full = <<>>
    /\ df = <<>>
    /\ all_countries = <<>>
    /\ year_options = <<>>
    /\ callbacks = {}
    /\ country_value = NoneStr
    /\ medal_value = NoneStr
    /\ year_value = YearNone
    /\ pending = {}
    /\ raised = {}
    /\ fig_pie = EmptyFig
    /\ fig_map = EmptyFig
    /\ fig_area = EmptyFig
    /\ fig_bar = EmptyFig
    /\ fig_args = NoArgs

dataVars == <<df_full, df, all_countries, year_options>>
uiVars == <<callbacks, country_value, medal_value, year_value, pending,
            raised, fig_pie, fig_map, fig_area, fig_bar,
            fig_args>>
envVars == <<csv, csv_columns>>

(* exit() with no argument: sys.exit(None), exit status 0 *)
ExitStatus == 0

(* lines 8-15: pd.read_csv inside try/except *)
load_csv ==
    /\ pc = "load"
    /\ load_attempts' = load_attempts + 1
    /\ \E outcome \in {"ok", "FileNotFoundError", "Exception"} :
          /\ load_result' = outcome
          /\ IF outcome = "ok"
             THEN /\ df_full' = CsvContent(csv)
                  /\ pc' = "validate"
                  /\ UNCHANGED <<printed, exit_code>>
             ELSE /\ printed' = Append(printed,
                        IF outcome = "FileNotFoundError"
                        THEN "Erro: 'Summer_olympic_Medals.csv' nao encontrado."
                        ELSE "Erro ao carregar o CSV: {e}")
                  /\ exit_code' = ExitStatus
                  /\ pc' = "exited"
                  /\ UNCHANGED df_full
    /\ UNCHANGED <<df, all_countries, year_options>>
    /\ UNCHANGED <<uiVars, envVars>>

(* the column check that reports the missing columns and goes on *)
validate_columns_no_exit ==
    /\ pc = "validate"
    /\ IF missing_cols(csv_columns) # <<>>
       THEN /\ printed' = printed \o
                  << "Erro: O arquivo CSV esta faltando as seguintes colunas esperadas: {}",
                     "Colunas disponiveis sao: {}" >>
            /\ pc' = "prepare"
            /\ UNCHANGED exit_code
       ELSE /\ pc' = "prepare"
            /\ UNCHANGED <<printed, exit_code>>
    /\ UNCHANGED <<load_attempts, load_result, dataVars, uiVars, envVars>>

(* lines 18-23: the required columns *)
validate_columns ==
    /\ pc = "validate"
    /\ IF missing_cols(csv_columns) # <<>>
       THEN /\ printed' = printed \o
                  << "Erro: O arquivo CSV esta faltando as seguintes colunas esperadas: {}",
                     "Colunas disponiveis sao: {}" >>
            /\ exit_code' = ExitStatus
            /\ pc' = "exited"
       ELSE /\ pc' = "prepare"
            /\ UNCHANGED <<printed, exit_code>>
    /\ UNCHANGED <<load_attempts, load_result, dataVars, uiVars, envVars>>

(* lines 26-42: rename, year filter, Total_Medals, dropdown lists *)
prepare_data ==
    /\ pc = "prepare"
    /\ df_full' = ReplaceCountryName(df_full)
    /\ df' = AddTotalMedals(FilterYears(df_full'))
    /\ all_countries' = AllCountries(df')
    /\ year_options' = YearOptions(df')
    /\ pc' = "build"
    /\ UNCHANGED <<load_attempts, load_result, printed, exit_code, uiVars, envVars>>

(* lines 45-197: the layout with its default values, the four registrations *)
build_app ==
    /\ pc = "build"
    /\ year_value' = YearAll
    /\ medal_value' = "Total_Medals"
    /\ country_value' = DefaultCountry(all_countries)
    /\ callbacks' = Callbacks
    /\ pc' = "run"
    /\ UNCHANGED <<load_attempts, load_result, printed, exit_code, dataVars,
                   envVars, pending, raised,
                   fig_pie, fig_map, fig_area, fig_bar, fig_args>>

(* lines 199-200: the server starts; a page load runs every callback once *)
run_server ==
    /\ pc = "run"
    /\ pc' = "serving"
    /\ pending' = {cb.func : cb \in callbacks}
    /\ raised' = {}
    /\ UNCHANGED <<load_attempts, load_result, printed, exit_code, dataVars,
                   envVars, callbacks, country_value, medal_value, year_value,
                   fig_pie, fig_map, fig_area, fig_bar, fig_args>>

---------------------------------------------------------------------------
(* Selector-change events: the runtime takes the next one when the callbacks
   of the previous one have all run. *)

startupVars == <<load_attempts, load_result, printed, exit_code>>

Event(input) ==
    /\ pc = "serving"
    /\ pending = {}
    /\ pending' = Triggered(input)
    /\ raised' = {}
    /\ UNCHANGED <<pc, startupVars, dataVars, envVars, callbacks,
                   fig_pie, fig_map, fig_area, fig_bar, fig_args>>

change_country ==
    /\ \E v \in CountryInputs :
          /\ v # country_value
          /\ country_value' = v
    /\ Event("country-dropdown")
    /\ UNCHANGED <<medal_value, year_value>>

change_medal_type ==
    /\ \E v \in MedalInputs :
          /\ v # medal_value
          /\ medal_value' = v
    /\ Event("medal-type-dropdown")
    /\ UNCHANGED <<country_value, year_value>>

change_year ==
    /\ \E v \in YearInputs :
          /\ v # year_value
          /\ year_value' = v
    /\ Event("year-dropdown")
    /\ UNCHANGED <<country_value, medal_value>>

(* One queued callback runs: a returned figure replaces the output's figure,
   a raised exception leaves the output as it was. *)
Run(func) ==
    /\ pc = "serving"
    /\ func \in pending
    /\ pending' = pending \ {func}
    /\ UNCHANGED <<pc, startupVars, envVars, callbacks, country_value,
                   medal_value, year_value,
                   df_full, all_countries, year_options>>

Returned(result) == result.kind # "error"

call_update_pie_chart ==
    /\ Run("update_pie_chart")
    /\ LET result == update_pie_chart(df, country_value)
       IN  /\ fig_pie' = IF Returned(result) THEN result ELSE fig_pie
           /\ fig_args' = IF Returned(result)
                          THEN [fig_args EXCEPT !.pie = <<country_value>>]
                          ELSE fig_args
           /\ raised' = IF Returned(result) THEN raised
                        ELSE raised \cup {"update_pie_chart"}
    /\ df' = df
    /\ UNCHANGED <<fig_map, fig_area, fig_bar>>

call_update_map_chart ==
    /\ Run("update_map_chart")
    /\ LET result == update_map_chart(df, medal_value)
       IN  /\ fig_map' = IF Returned(result) THEN result ELSE fig_map
           /\ fig_args' = IF Returned(result)
                          THEN [fig_args EXCEPT !.map = <<medal_value>>]
                          ELSE fig_args
           /\ raised' = IF Returned(result) THEN raised
                        ELSE raised \cup {"update_map_chart"}
    /\ df' = df
    /\ UNCHANGED <<fig_pie, fig_area, fig_bar>>

call_update_area_chart ==
    /\ Run("update_area_chart")
    /\ LET result == update_area_chart(df, medal_value)
       IN  /\ fig_area' = IF Returned(result) THEN result ELSE fig_area
           /\ fig_args' = IF Returned(result)
                          THEN [fig_args EXCEPT !.area = <<medal_value>>]
                          ELSE fig_args
           /\ raised' = IF Returned(result) THEN raised
                        ELSE raised \cup {"update_area_chart"}
    /\ df' = df
    /\ UNCHANGED <<fig_pie, fig_map, fig_bar>>

(* the bar callback filtering the module-level table in place *)
call_update_bar_chart_in_place ==
    /\ Run("update_bar_chart")
    /\ LET result == update_bar_chart(df, year_options, medal_value, year_value)
       IN  /\ fig_bar' = IF Returned(result) THEN result ELSE fig_bar
           /\ fig_args' = IF Returned(result)
                          THEN [fig_args EXCEPT !.bar = <<medal_value, year_value>>]
                          ELSE fig_args
           /\ raised' = IF Returned(result) THEN raised
                        ELSE raised \cup {"update_bar_chart"}
    /\ df' = current_df_bar(df, year_value)
    /\ UNCHANGED <<fig_pie, fig_map, fig_area>>

call_update_bar_chart ==
    /\ Run("update_bar_chart")
    /\ LET result == update_bar_chart(df, year_options, medal_value, year_value)
       IN  /\ fig_bar' = IF Returned(result) THEN result ELSE fig_bar
           /\ fig_args' = IF Returned(result)
                          THEN [fig_args EXCEPT !.bar = <<medal_value, year_value>>]
                          ELSE fig_args
           /\ raised' = IF Returned(result) THEN raised
                        ELSE raised \cup {"update_bar_chart"}
    /\ df' = df
    /\ UNCHANGED <<fig_pie, fig_map, fig_area>>

Next ==
    \/ load_csv
    \/ validate_columns
    \/ prepare_data
    \/ build_app
    \/ run_server
    \/ change_country
    \/ change_medal_type
    \/ change_year
    \/ call_update_pie_chart
    \/ call_update_map_chart
    \/ call_update_area_chart
    \/ call_update_bar_chart

Spec == Init /\ [][Next]_vars

TypeOK ==
    /\ pc \in {"load", "validate", "prepare", "build", "run", "serving", "exited"}
    /\ pending \subseteq {cb.func : cb \in Callbacks}

---------------------------------------------------------------------------
(* Properties *)

Serving == pc = "serving"
Prepared == pc \in {"build", "run", "serving"}
MedalFuncs == {"update_map_chart", "update_area_chart", "update_bar_chart"}

RECURSIVE SumValues(_)
SumValues(s) == IF s = <<>> THEN 0 ELSE Head(s).value + SumValues(Tail(s))

RowsOf(d, name, y) ==
    SelectSeq(d, LAMBDA r : r.Country_Name = name /\ r.Year = y)

(* C1: every chart function returns a chart for every selector value the
   dropdowns can deliver, a cleared (None) selection included: no callback
   invocation ever raises. *)
C1_ChartFunctionsTotal == raised = {}

(* C2: for the same medal-type key, the countries kept by the area chart are
   the countries kept by the bar chart called with year = 'All'. *)
C2_AreaAndBarSameTop10 ==
    (/\ fig_args.area # <<>>
     /\ fig_args.bar # <<>>
     /\ fig_args.bar[2] = YearAll
     /\ fig_args.area[1] = fig_args.bar[1])
    => Index(fig_area.data) = Index(fig_bar.data)

(* Both charts show the same key over all years, more than ten countries have
   rows, and a country that is kept ties with a country that is dropped. *)
C2_Witness ==
    /\ fig_args.area # <<>>
    /\ fig_args.bar # <<>>
    /\ fig_args.bar[2] = YearAll
    /\ fig_args.area[1] = fig_args.bar[1]
    /\ Len(all_countries) > TOP_N
    /\ LET sums == GroupByCountrySum(df, fig_args.bar[1])
       IN  \E i, j \in DOMAIN sums :
              /\ sums[i].value = sums[j].value
              /\ sums[i].Country_Name \in Index(fig_bar.data)
              /\ sums[j].Country_Name \notin Index(fig_bar.data)

(* C3: the map's per-country values add up to the sum of the selected column
   over every row of the prepared table, and every distinct Country_Name of
   the table appears exactly once. *)
C3_MapSumsToColumnTotal ==
    fig_args.map # <<>> =>
        /\ SumValues(fig_map.data) = SumCol(df, fig_args.map[1])
        /\ Index(fig_map.data) = NamesOf(df)
        /\ Len(fig_map.data) = Cardinality(NamesOf(df))

(* A map over a table where a country has several rows (the renamed
   "United States" rows among them) and more than ten countries. *)
C3_Witness ==
    /\ fig_args.map # <<>>
    /\ Len(fig_map.data) > TOP_N
    /\ Len(df) > Len(fig_map.data)
    /\ \E i \in DOMAIN CsvContent(csv) :
          CsvContent(csv)[i].Country_Name = "United States"
    /\ SumValues(fig_map.data) > 0

(* C4: with a specific year Y, every country of the bar data has a row of
   year Y, its value is the sum of the key over its rows of year Y only, and
   at most 10 countries are returned. *)
C4_BarOnlyRowsOfYear ==
    (fig_args.bar # <<>> /\ fig_args.bar[2] # YearAll) =>
        LET m == fig_args.bar[1]
            y == fig_args.bar[2]
        IN  /\ Len(fig_bar.data) <= 10
            /\ \A i \in DOMAIN fig_bar.data :
                  LET rows == RowsOf(df, fig_bar.data[i].Country_Name, y)
                  IN  /\ rows # <<>>
                      /\ fig_bar.data[i].value = SumCol(rows, m)

(* A bar chart of a year in which more than ten countries have rows, showing
   a country whose medals of other years are left out. *)
C4_Witness ==
    /\ fig_args.bar # <<>>
    /\ fig_args.bar[2] \notin {YearAll, YearNone}
    /\ Len(fig_bar.data) = 10
    /\ Cardinality({df[i].Country_Name : i \in {k \in DOMAIN df : df[k].Year = fig_args.bar[2]}}) > 10
    /\ \E i \in DOMAIN fig_bar.data :
          fig_bar.data[i].value <
              SumCol(SelectSeq(df, LAMBDA r : r.Country_Name = fig_bar.data[i].Country_Name),
                     fig_args.bar[1])

(* C5: the pie callback never raises; with no country selected, and with a
   country that has no row, it returns a chart without slices, the two cases
   with different annotations; only a country with a row gets the three
   Gold/Silver/Bronze slices. *)
C5_PiePlaceholders ==
    /\ "update_pie_chart" \notin raised
    /\ (Serving /\ "update_pie_chart" \notin pending) => fig_args.pie = <<country_value>>
    /\ fig_args.pie # <<>> =>
          LET c == fig_args.pie[1]
              has_rows == c \in NamesOf(df)
          IN  /\ c \in {NoneStr, ""} =>
                    /\ fig_pie.data = <<>>
                    /\ fig_pie.annotation = "Nenhum pais selecionado"
              /\ (c \notin {NoneStr, ""} /\ ~has_rows) =>
                    /\ fig_pie.data = <<>>
                    /\ fig_pie.annotation = "Dados nao disponiveis"
              /\ (c \notin {NoneStr, ""}) =>
                    fig_pie.annotation # "Nenhum pais selecionado"
              /\ (fig_pie.data # <<>>) <=> (c \notin {NoneStr, ""} /\ has_rows)
              /\ (fig_pie.data # <<>>) =>
                    /\ Len(fig_pie.data) = 3
                    /\ fig_pie.data[1] = [name |-> "Ouro", value |-> SumCol(SelectSeq(df, LAMBDA r : r.Country_Name = c), "Gold")]
                    /\ fig_pie.data[2] = [name |-> "Prata", value |-> SumCol(SelectSeq(df, LAMBDA r : r.Country_Name = c), "Silver")]
                    /\ fig_pie.data[3] = [name |-> "Bronze", value |-> SumCol(SelectSeq(df, LAMBDA r : r.Country_Name = c), "Bronze")]

(* The pie was asked for a country that is in the file but has no row in the
   prepared table. *)
C5_Witness ==
    /\ fig_args.pie = <<"United States">>
    /\ df # <<>>
    /\ "United States" \notin NamesOf(df)
    /\ \E i \in DOMAIN CsvContent(csv) : CsvContent(csv)[i].Country_Name = "United States"
    /\ fig_pie.annotation = "Dados nao disponiveis"

(* C6: when the load fails (read error or a required column missing) the
   process prints a diagnostic and exits before the data is prepared, the
   layout built or a callback registered; no chart function is invoked and
   the load is not retried. *)
LoadFailed ==
    \/ load_result \in {"FileNotFoundError", "Exception"}
    \/ load_result = "ok" /\ missing_cols(csv_columns) # <<>>

C6_LoadFailureIsFatal ==
    LoadFailed =>
        /\ pc \in {"validate", "exited"}
        /\ pc = "exited" => printed # <<>>
        /\ load_attempts = 1
        /\ df = <<>> /\ all_countries = <<>> /\ year_options = <<>>
        /\ callbacks = {}
        /\ pending = {}
        /\ fig_args = NoArgs
        /\ <<fig_pie, fig_map, fig_area, fig_bar>> = <<EmptyFig, EmptyFig, EmptyFig, EmptyFig>>

(* The file was read but lacks a required column, and the process has exited. *)
C6_Witness ==
    /\ load_result = "ok"
    /\ missing_cols(csv_columns) # <<>>
    /\ pc = "exited"
    /\ Len(printed) = 2

(* C7: on a data-loading failure the process terminates with a non-zero exit
   status. *)
C7_NonZeroExitStatus == pc = "exited" => exit_code # 0

(* C8: a country change queues only update_pie_chart; a medal-type change
   queues the map, area and bar callbacks and not the pie; a year change
   queues only the bar; a figure changes only when its own queued callback
   runs; and no selector changes while a callback is still queued. *)
C8_Step ==
    Serving =>
        /\ country_value' # country_value =>
              /\ pending = {}
              /\ pending' = {"update_pie_chart"}
              /\ UNCHANGED <<medal_value, year_value>>
        /\ medal_value' # medal_value =>
              /\ pending = {}
              /\ pending' = MedalFuncs
              /\ UNCHANGED <<country_value, year_value>>
        /\ year_value' # year_value =>
              /\ pending = {}
              /\ pending' = {"update_bar_chart"}
              /\ UNCHANGED <<country_value, medal_value>>
        /\ pending' # pending =>
              \/ pending = {} /\ <<country_value, medal_value, year_value>>' # <<country_value, medal_value, year_value>>
              \/ \E f \in pending : pending' = pending \ {f}
        /\ <<fig_pie, fig_args.pie>>' # <<fig_pie, fig_args.pie>> =>
              "update_pie_chart" \in pending /\ pending' = pending \ {"update_pie_chart"}
        /\ <<fig_map, fig_args.map>>' # <<fig_map, fig_args.map>> =>
              "update_map_chart" \in pending /\ pending' = pending \ {"update_map_chart"}
        /\ <<fig_area, fig_args.area>>' # <<fig_area, fig_args.area>> =>
              "update_area_chart" \in pending /\ pending' = pending \ {"update_area_chart"}
        /\ <<fig_bar, fig_args.bar>>' # <<fig_bar, fig_args.bar>> =>
              "update_bar_chart" \in pending /\ pending' = pending \ {"update_bar_chart"}

C8_OutputsFollowDeclaredInputs == [][C8_Step]_vars

(* All three selectors have been changed and every queued callback has run. *)
C8_Witness ==
    /\ Serving
    /\ pending = {}
    /\ fig_args.pie # <<>> /\ fig_args.pie[1] # DefaultCountry(all_countries)
    /\ fig_args.map # <<>> /\ fig_args.map[1] # "Total_Medals"
    /\ fig_args.bar # <<>> /\ fig_args.bar[2] # YearAll
    /\ country_value = fig_args.pie[1]
    /\ medal_value = fig_args.map[1]

(* C9: no callback invocation changes df, year_options or all_countries, and a
   chart function called again with the arguments that produced the figure
   now shown returns that same figure, whatever ran in between. *)
Ran(func) == func \in pending /\ pending' = pending \ {func}

C9_Step ==
    Serving =>
        /\ UNCHANGED <<df, year_options, all_countries>>
        /\ (Ran("update_pie_chart") /\ fig_args.pie = <<country_value>>) =>
              fig_pie' = fig_pie
        /\ (Ran("update_map_chart") /\ fig_args.map = <<medal_value>>) =>
              fig_map' = fig_map
        /\ (Ran("update_area_chart") /\ fig_args.area = <<medal_value>>) =>
              fig_area' = fig_area
        /\ (Ran("update_bar_chart") /\ fig_args.bar = <<medal_value, year_value>>) =>
              fig_bar' = fig_bar

C9_Stateless == [][C9_Step]_vars

(* The bar callback is queued with the very arguments of the figure now shown
   (the medal type was cleared and selected again), after the other callbacks
   ran with other arguments. *)
C9_Witness ==
    /\ Serving
    /\ "update_bar_chart" \in pending
    /\ fig_args.bar = <<medal_value, year_value>>
    /\ year_value # YearAll
    /\ fig_args.pie # <<>> /\ fig_args.pie[1] # DefaultCountry(all_countries)
    /\ df # <<>>

(* C10: once prepared, every row has 1992 <= Year <= 2020 and
   Total_Medals = Gold + Silver + Bronze, in every later state. *)
C10_PreparedRows ==
    Prepared =>
        \A i \in DOMAIN df :
            /\ 1992 <= df[i].Year
            /\ df[i].Year <= 2020
            /\ df[i].Total_Medals = df[i].Gold + df[i].Silver + df[i].Bronze

(* The file had rows outside 1992-2020, rows of both limit years were kept,
   and selector events have been handled since. *)
C10_Witness ==
    /\ Serving
    /\ pending = {}
    /\ medal_value # "Total_Medals"
    /\ Len(df) < Len(df_full)
    /\ \E i, j \in DOMAIN df : df[i].Year = 1992 /\ df[j].Year = 2020

=============================================================================
